---- MODULE Spec2Model ----
(***************************************************************************)
(* Poll option reconciliation, vote casting and poll deletion of the       *)
(* polling application, against the relational store described by the     *)
(* README schema (foreign keys with ON DELETE CASCADE, UNIQUE(poll_id,     *)
(* user_id) on votes, row level security policies).                        *)
(*                                                                         *)
(* Texts are sequences of characters, so that String.prototype.trim is     *)
(* modelled by what it does.                                               *)
(***************************************************************************)
EXTENDS Integers, Sequences, FiniteSets, TLC

\* ------------------------------------------------------------------------
\* Bounds of the model
\* ------------------------------------------------------------------------
\* longest list of existing options fed to the reconciler on its own
MaxExisting == 2
\* longest list of submitted texts fed to the reconciler on its own
MaxSubmitted == 3
\* submits of the edit form in one run of the system
MaxSubmits == 1
\* longest user id fed to the ownership gate on its own
MaxIdLen == 2
\* submits of the create form in one run of the polls
MaxCreates == 1
\* vote rows in one run of the polls
MaxVotes == 2
\* submits of the edit form in one run of the edit page on its own
MaxEditSubmits == 2
\* clicks on the confirm button while one delete call is in flight
MaxConfirmClicks == 2
\* calls of the server actions in one run of the server actions on their own
MaxSecureCalls == 2

\* ------------------------------------------------------------------------
\* Texts
\* ------------------------------------------------------------------------
Whitespace == {" "}

TextA == <<"a">>
TextB == <<"b">>
\* a non-blank text with leading whitespace: trim() changes it, the filter keeps it
TextSpA == <<" ", "a">>
\* an upper case text: toLowerCase() changes it
TextUpA == <<"A">>
TextEmpty == <<>>
TextSpace == <<" ">>

\* texts an option row can hold (the application never inserts a blank text)
OptionTexts == {TextA, TextB, TextSpA}
\* texts a form field can hold
FormTexts == OptionTexts \cup {TextEmpty, TextSpace}

\* String.prototype.trim: strips leading and trailing whitespace
RECURSIVE TrimLeft(_)
TrimLeft(s) ==
    IF s = <<>> THEN <<>>
    ELSE IF Head(s) \in Whitespace THEN TrimLeft(Tail(s)) ELSE s

RECURSIVE TrimRight(_)
TrimRight(s) ==
    IF s = <<>> THEN <<>>
    ELSE IF s[Len(s)] \in Whitespace THEN TrimRight(SubSeq(s, 1, Len(s) - 1)) ELSE s

Trim(s) == TrimRight(TrimLeft(s))

\* String.prototype.toLowerCase
LowerChar(c) == IF c = "A" THEN "a" ELSE c

ToLowerCase(s) == [i \in 1..Len(s) |-> LowerChar(s[i])]

\* ------------------------------------------------------------------------
\* The reconciliation step of the edit handler (pure part of handleSubmit)
\* ------------------------------------------------------------------------
\* option.trim() !== ''
NonBlank(option) == Trim(option) # <<>>

\* no filtering of the submitted texts
CurrentOptionTextsUnfiltered(options) == options

\* pollData.options.filter(option => option.trim() !== '')
CurrentOptionTexts(options) == SelectSeq(options, NonBlank)

\* find without the "not already kept" exclusion
FindMatchIgnoringKept(existingOptions, optionsToKeep, currentText) ==
    LET hits == {i \in 1..Len(existingOptions) :
                    existingOptions[i].option_text = currentText}
    IN IF hits = {} THEN 0 ELSE CHOOSE i \in hits : \A j \in hits : i <= j

\* find returning the last candidate instead of the first
FindMatchLast(existingOptions, optionsToKeep, currentText) ==
    LET hits == {i \in 1..Len(existingOptions) :
                    /\ existingOptions[i].id \notin optionsToKeep
                    /\ existingOptions[i].option_text = currentText}
    IN IF hits = {} THEN 0 ELSE CHOOSE i \in hits : \A j \in hits : i >= j

\* existingOptions.find(existing => !optionsToKeep.has(existing.id) &&
\*                      existing.option_text === currentText)
\* the index of the first such option, 0 when find returns undefined
FindMatch(existingOptions, optionsToKeep, currentText) ==
    LET hits == {i \in 1..Len(existingOptions) :
                    /\ existingOptions[i].id \notin optionsToKeep
                    /\ existingOptions[i].option_text = currentText}
    IN IF hits = {} THEN 0 ELSE CHOOSE i \in hits : \A j \in hits : i <= j

\* the loop `for (const currentText of currentOptionTexts)`, from position n on
RECURSIVE AnalyzeFrom(_, _, _, _, _)
AnalyzeFrom(existingOptions, currentOptionTexts, n, optionsToKeep, optionsToCreate) ==
    IF n > Len(currentOptionTexts)
    THEN [toKeep |-> optionsToKeep, toCreate |-> optionsToCreate]
    ELSE LET currentText == currentOptionTexts[n]
             m == FindMatch(existingOptions, optionsToKeep, currentText)
         IN IF m # 0
            THEN AnalyzeFrom(existingOptions, currentOptionTexts, n + 1,
                             optionsToKeep \cup {existingOptions[m].id}, optionsToCreate)
            ELSE AnalyzeFrom(existingOptions, currentOptionTexts, n + 1,
                             optionsToKeep, Append(optionsToCreate, currentText))

\* the loop started at the second submitted text
AnalyzeOptionsSkipFirst(existingOptions, currentOptionTexts) ==
    AnalyzeFrom(existingOptions, currentOptionTexts, 2, {}, <<>>)

AnalyzeOptions(existingOptions, currentOptionTexts) ==
    AnalyzeFrom(existingOptions, currentOptionTexts, 1, {}, <<>>)

\* the filter with its negation dropped
OptionsToDeleteKept(existingOptions, optionsToKeep) ==
    LET Kept(option) == option.id \in optionsToKeep
    IN SelectSeq(existingOptions, Kept)

\* existingOptions.filter(option => !optionsToKeep.has(option.id))
OptionsToDelete(existingOptions, optionsToKeep) ==
    LET NotKept(option) == option.id \notin optionsToKeep
    IN SelectSeq(existingOptions, NotKept)

\* the three results of the reconciliation of one submit
Reconcile(existingOptions, options) ==
    LET a == AnalyzeOptions(existingOptions, CurrentOptionTexts(options))
    IN [toKeep |-> a.toKeep,
        toCreate |-> a.toCreate,
        toDelete |-> OptionsToDelete(existingOptions, a.toKeep)]

\* ------------------------------------------------------------------------
\* Helpers to enumerate inputs
\* ------------------------------------------------------------------------
SeqsUpTo(S, n) == UNION {[1..k -> S] : k \in 0..n}

Range(s) == {s[i] : i \in 1..Len(s)}

Ids(rows) == {rows[i].id : i \in 1..Len(rows)}

\* lists of option rows {id, option_text} with pairwise distinct ids
ExistingInputs ==
    {e \in SeqsUpTo([id : 1..MaxExisting, option_text : OptionTexts], MaxExisting) :
        \A i, j \in 1..Len(e) : i # j => e[i].id # e[j].id}

SubmittedInputs == SeqsUpTo(FormTexts, MaxSubmitted)

NoResult == [toKeep |-> {}, toCreate |-> <<>>, toDelete |-> <<>>]

\* ------------------------------------------------------------------------
\* Identities and rows
\* ------------------------------------------------------------------------
\* user ids are texts, so that the trim() of validateUserId is modelled
UserU1 == <<"u", "1">>
UserU2 == <<"u", "2">>
Users == {UserU1, UserU2}
\* no session: `user` is null, user?.id is undefined, auth.uid() is NULL
NoUser == <<"undefined">>
Sessions == Users \cup {NoUser}

PollId == "p1"
\* titles are texts: the create form trims and measures them
OldTitle == <<"o", "l", "d">>
NewTitle == <<"n", "e", "w">>

\* the lists of texts tried on the edit form in the system
EditInputs ==
    {<<>>, <<TextA>>, <<TextB>>, <<TextA, TextB>>, <<TextB, TextA>>, <<TextA, TextA>>,
     <<TextSpace, TextA>>, <<TextB, TextSpace>>, <<TextSpace, TextEmpty>>,
     <<TextSpace, TextSpace>>}

\* the Remove button is rendered while pollData.options.length > 2
MinFormOptions == 2

VARIABLES
    rExisting,    \* reconciler on its own: the existing options (pollOptions)
    rSubmitted,   \* reconciler on its own: the submitted texts (pollData.options)
    rResult,      \* reconciler on its own: toKeep, toCreate, toDelete
    rDone,        \* reconciler on its own: the reconciliation has run
    gCurrentUserId, \* gate on its own: argument currentUserId
    gPollCreatorId, \* gate on its own: argument pollCreatorId
    gAuthorized,  \* gate on its own: isAuthorized of the result
    gRendered,    \* gate on its own: the component renders its controls
    gDone,        \* gate on its own: the gate has returned
    polls,        \* store: rows of table polls, [id, user_id, title]
    poll_options, \* store: rows of table poll_options, [id, poll_id, option_text]
    votes,        \* store: rows of table votes, [id, poll_id, option_id, user_id]
    nextOptionId, \* store: the next fresh poll_options id (gen_random_uuid)
    editPc,       \* edit page: position of the page and of handleSubmit
    editUser,     \* edit page: `user` of the auth context
    pollOptions,  \* edit page: state pollOptions, the options as last fetched
    pollData,     \* edit page: state pollData.options, the texts of the form
    toCreate,     \* handleSubmit: optionsToCreate
    toDelete,     \* handleSubmit: optionsToDelete
    toKeep,       \* handleSubmit: optionsToKeep
    idx,          \* handleSubmit: position in the loop being run
    calls,        \* the store calls issued by the current run of handleSubmit
    submits,      \* number of submits of the edit form so far
    hasVoted,     \* vote page of each user: state hasVoted
    votePoll,     \* vote page of each user: poll_id of the route
    voteCalls,    \* the store call issued by the step just taken, when it is a handleVote
    isDeleting,   \* poll actions: state isDeleting
    deleteUser,   \* poll actions: currentUserId of the component that deletes
    deleteCalls,  \* the store calls issued by the current run of handleDeleteConfirm
    onPollDeleted, \* poll actions: the prop onPollDeleted is provided
    refreshCalls, \* the refresh actions invoked by the current run of handleDeleteConfirm
    deleteInFlight, \* poll actions: deletePoll calls that have not returned yet
    confirmClicks, \* poll actions: confirm clicks since the call in flight was started
    createPc,     \* create page: position of handleSubmit
    createUser,   \* create page: `user` of the auth context at the submit
    createForm,   \* create page: state pollData, [title, description, options]
    createErrors, \* create page: state errors, the keys that are set
    createdPoll,  \* create page: poll.id returned by the insert of the poll
    createCalls,  \* the store calls issued by the current run of the create handleSubmit
    creates,      \* number of submits of the create form so far
    secureResult, \* server actions on their own: the call made last and what it returned
    secureCalls,  \* server actions on their own: number of calls so far
    shown         \* the toast or alert raised by the step just taken, if any

rVars == <<rExisting, rSubmitted, rResult, rDone>>
gVars == <<gCurrentUserId, gPollCreatorId, gAuthorized, gRendered, gDone>>
sVars == <<secureResult, secureCalls>>
storeVars == <<polls, poll_options, votes, nextOptionId>>
editVars == <<editPc, editUser, pollOptions, pollData, toCreate, toDelete, toKeep, idx,
              calls, submits>>
voteVars == <<hasVoted, votePoll>>
deleteVars == <<isDeleting, deleteUser, deleteCalls, onPollDeleted, refreshCalls,
                deleteInFlight, confirmClicks>>
createVars == <<createPc, createUser, createForm, createErrors, createdPoll, createCalls,
                creates>>
vars == <<rVars, gVars, sVars, storeVars, editVars, voteVars, deleteVars, createVars, shown,
          voteCalls>>

\* a toast or an alert is an event of the step that raises it
Nothing == [by |-> "none", user |-> NoUser, title |-> "none", detail |-> "none"]

Shown(by, user, title, detail) ==
    [by |-> by, user |-> user, title |-> title, detail |-> detail]

\* ------------------------------------------------------------------------
\* The store (README: schema and row level security policies)
\* ------------------------------------------------------------------------
PollRows(p) == {r \in polls : r.id = p}

OptionRows(o) == {r \in Range(poll_options) : r.id = o}

\* polls.user_id of the poll that holds option row r
OwnerOfOption(r) == {q.user_id : q \in PollRows(r.poll_id)}

\* CREATE POLICY "Users can update own polls" / "Users can delete own polls"
OwnPollRows(uid, p) == {r \in PollRows(p) : r.user_id = uid}

\* the votes that reference one of the option rows os
VotesOfOptions(os) == {v \in votes : v.option_id \in os}

\* select * from poll_options where poll_id = p, in the order of insertion
OptionsOfPoll(p) ==
    LET InPoll(r) == r.poll_id = p
    IN SelectSeq(poll_options, InPoll)

VotesOfPoll(p) == {v \in votes : v.poll_id = p}

\* a delete of poll row p that leaves the votes of the poll in place
VotesAfterPollDeleteNoCascade(p) == votes

\* the votes a delete of poll row p leaves: votes.poll_id and, through the
\* options, votes.option_id are ON DELETE CASCADE
VotesAfterPollDelete(p) ==
    votes \ (VotesOfPoll(p) \cup VotesOfOptions(Ids(OptionsOfPoll(p))))

\* the option rows a delete of poll row p leaves: poll_options.poll_id is
\* ON DELETE CASCADE
OptionsAfterPollDelete(p) ==
    LET NotInPoll(r) == r.poll_id # p
    IN SelectSeq(poll_options, NotInPoll)

\* the option rows a delete of option row o leaves
OptionsAfterOptionDelete(o) ==
    LET Other(r) == r.id # o
    IN SelectSeq(poll_options, Other)

\* a delete of option row o that leaves the votes of the option in place
VotesAfterOptionDeleteNoCascade(o) == votes

\* the votes a delete of option row o leaves: votes.option_id is ON DELETE CASCADE
VotesAfterOptionDelete(o) == votes \ VotesOfOptions({o})

\* CREATE POLICY "Users can delete own votes" ... USING (auth.uid() = user_id)
OwnVotesOfOption(uid, o) == {v \in votes : v.option_id = o /\ v.user_id = uid}

\* CREATE POLICY "Users can create options for own polls" (and the foreign key)
CanInsertOption(uid, p) == OwnPollRows(uid, p) # {}

\* the insert without the UNIQUE constraint
CanInsertVoteNoUnique(uid, p, o, u) ==
    /\ uid # NoUser /\ uid = u
    /\ PollRows(p) # {}
    /\ OptionRows(o) # {}

\* insert into votes: policy "Users can create own votes", the two foreign
\* keys and UNIQUE(poll_id, user_id)
CanInsertVote(uid, p, o, u) ==
    /\ uid # NoUser /\ uid = u
    /\ PollRows(p) # {}
    /\ OptionRows(o) # {}
    /\ ~\E v \in votes : v.poll_id = p /\ v.user_id = u

\* the error of an insert into votes that the store rejects or that fails
VoteInsertError(ok, uid, p, o, u) ==
    IF ~ok THEN "store error"
    ELSE IF uid = NoUser \/ uid # u THEN "row-level security"
    ELSE IF PollRows(p) = {} \/ OptionRows(o) = {} THEN "foreign key"
    ELSE "duplicate key"

\* a votes id no row of the table has (gen_random_uuid)
FreshVoteId(u) ==
    <<u, CHOOSE n \in 1..(Cardinality(votes) + 1) :
            /\ \A v \in votes : v.id # <<u, n>>
            /\ \A m \in 1..(n - 1) : \E v \in votes : v.id = <<u, m>>>>

\* ------------------------------------------------------------------------
\* Server actions (poll-actions-secure)
\* ------------------------------------------------------------------------
\* the checks without the comparison of the owner with the caller
VerifyOwnershipSignedIn(uid, o) ==
    IF uid = NoUser THEN "Authentication required"
    ELSE IF \A r \in OptionRows(o) : OwnerOfOption(r) = {}
         THEN "Failed to verify option ownership"
    ELSE "ok"

\* the checks each secure action makes before it touches a row:
\* getUser, the option with its poll (.single()), the owner comparison
VerifyOwnership(uid, o) ==
    IF uid = NoUser THEN "Authentication required"
    ELSE IF \A r \in OptionRows(o) : OwnerOfOption(r) = {}
         THEN "Failed to verify option ownership"
    ELSE IF \E r \in OptionRows(o) : uid \notin OwnerOfOption(r)
         THEN "Not your own poll"
    ELSE "ok"

\* the error text a secure action returns when the call itself goes through
ActionError(ok, uid, o) == IF ok THEN VerifyOwnership(uid, o) ELSE "store error"

\* what a server action returns: success, error and, for the vote check, votes
SecureResult(op, uid, o, error, data) ==
    [op |-> op, user |-> uid, option |-> o, success |-> (error = "ok"), error |-> error,
     votes |-> data]

NoSecureResult == SecureResult("none", NoUser, 0, "ok", {})

\* checkVotesForOptionSecure(o) called in the session of uid
SecureCheckVotes(uid, o, ok) ==
    /\ secureCalls < MaxSecureCalls
    /\ secureCalls' = secureCalls + 1
    /\ secureResult' = SecureResult("checkVotes", uid, o, ActionError(ok, uid, o),
                                    IF ActionError(ok, uid, o) = "ok"
                                    THEN VotesOfOptions({o}) ELSE {})
    /\ shown' = Nothing
    /\ voteCalls' = <<>>
    /\ UNCHANGED <<rVars, gVars, storeVars, editVars, voteVars, deleteVars, createVars>>

\* deleteVotesForOptionSecure(o) called in the session of uid
SecureDeleteVotes(uid, o, ok) ==
    /\ secureCalls < MaxSecureCalls
    /\ secureCalls' = secureCalls + 1
    /\ secureResult' = SecureResult("deleteVotes", uid, o, ActionError(ok, uid, o), {})
    /\ votes' = IF ActionError(ok, uid, o) = "ok"
                THEN votes \ OwnVotesOfOption(uid, o) ELSE votes
    /\ shown' = Nothing
    /\ voteCalls' = <<>>
    /\ UNCHANGED <<polls, poll_options, nextOptionId>>
    /\ UNCHANGED <<rVars, gVars, editVars, voteVars, deleteVars, createVars>>

\* deletePollOptionSecure(o) called in the session of uid
SecureDeleteOption(uid, o, ok) ==
    /\ secureCalls < MaxSecureCalls
    /\ secureCalls' = secureCalls + 1
    /\ secureResult' = SecureResult("deleteOption", uid, o, ActionError(ok, uid, o), {})
    /\ poll_options' = IF ActionError(ok, uid, o) = "ok"
                       THEN OptionsAfterOptionDelete(o) ELSE poll_options
    /\ votes' = IF ActionError(ok, uid, o) = "ok" THEN VotesAfterOptionDelete(o) ELSE votes
    /\ shown' = Nothing
    /\ voteCalls' = <<>>
    /\ UNCHANGED <<polls, nextOptionId>>
    /\ UNCHANGED <<rVars, gVars, editVars, voteVars, deleteVars, createVars>>

\* ------------------------------------------------------------------------
\* Edit page
\* ------------------------------------------------------------------------
Texts(rows) == [i \in 1..Len(rows) |-> rows[i].option_text]

Call(op, id, ok, n) == [op |-> op, id |-> id, ok |-> ok, n |-> n]

\* a catch block that removes the options the run has inserted
FailedRollingBack(call, message) ==
    LET inserted == {calls[i].id : i \in {j \in 1..Len(calls) : calls[j].op = "insertOption"}}
        NotInserted(r) == r.id \notin inserted
    IN /\ editPc' = "form"
       /\ shown' = Shown("handleSubmit", editUser, "Error", message)
       /\ calls' = Append(calls, call)
       /\ poll_options' = SelectSeq(poll_options, NotInserted)
       /\ UNCHANGED <<polls, votes, nextOptionId>>
       /\ UNCHANGED <<editUser, pollOptions, pollData, toCreate, toDelete, toKeep, idx,
                      submits>>

\* a catch block that leaves handleSubmit where it is, to issue the call again
FailedRetrying(call, message) ==
    /\ shown' = Shown("handleSubmit", editUser, "Error", message)
    /\ calls' = Append(calls, call)
    /\ UNCHANGED storeVars
    /\ UNCHANGED <<editPc, editUser, pollOptions, pollData, toCreate, toDelete, toKeep, idx,
                   submits>>

\* the catch block of handleSubmit: the error toast with error.message, the
\* form stays, the store is left as the failed call left it
Failed(call, message) ==
    /\ editPc' = "form"
    /\ shown' = Shown("handleSubmit", editUser, "Error", message)
    /\ calls' = Append(calls, call)
    /\ UNCHANGED storeVars
    /\ UNCHANGED <<editUser, pollOptions, pollData, toCreate, toDelete, toKeep, idx, submits>>

\* an update that also hands the poll to another user
UpdatedPollRowReassigned(q) == [q EXCEPT !.title = NewTitle, !.user_id = UserU2]

\* .update({ title, description, updated_at }) on row q
UpdatedPollRow(q) == [q EXCEPT !.title = NewTitle]

\* the check of pollUpdateError left out
PollUpdateThrowsNever(ok) == FALSE

\* if (pollUpdateError) throw new Error(...)
PollUpdateThrows(ok) == ~ok

\* a handler without Step 5: the options of toDelete are left in the store
AfterCreateSkippingDeletes(create, delete, n) ==
    IF n <= Len(create) THEN "create" ELSE "refresh"

\* where handleSubmit goes once the loop over optionsToCreate has reached n
AfterCreate(create, delete, n) ==
    IF n <= Len(create) THEN "create"
    ELSE IF Len(delete) > 0 THEN "check" ELSE "refresh"

\* where handleSubmit goes once the loop over optionsToDelete has reached n
AfterDelete(delete, n) == IF n <= Len(delete) THEN "check" ELSE "refresh"

\* the vote deletion skipped whatever the check returned
AfterCheckSkipVotes(n) == "deleteOption"

\* where handleSubmit goes after a vote check that returned n votes
AfterCheck(n) == IF n > 0 THEN "deleteVotes" ELSE "deleteOption"

\* useState({ ..., options: ["", ""] }): the form of a page that has loaded nothing
InitialOptions == <<TextEmpty, TextEmpty>>

\* the fetchPoll effect: the page opens for `user`, loads the poll and its
\* options. Without a user the effect returns before setIsLoading and the
\* page stays on its loading view; in every other case `finally` ends the
\* loading view, so a page that has asked for the redirect to the list shows
\* the form in its initial state until the navigation is done.
LoadEditPage(user) ==
    /\ editPc = "closed"
    /\ editUser' = user
    /\ calls' = <<>>
    /\ IF user = NoUser
       THEN /\ shown' = Shown("fetchPoll", user, "Authentication required", "none")
            /\ UNCHANGED <<editPc, pollOptions, pollData>>
       ELSE IF PollRows(PollId) = {}
       THEN /\ shown' = Shown("fetchPoll", user, "Error", "Failed to load poll data")
            /\ editPc' = "form"
            /\ pollOptions' = <<>>
            /\ pollData' = InitialOptions
       ELSE IF OwnPollRows(user, PollId) = {}
       THEN /\ shown' = Shown("fetchPoll", user, "Unauthorized", "none")
            /\ editPc' = "form"
            /\ pollOptions' = <<>>
            /\ pollData' = InitialOptions
       ELSE /\ editPc' = "form"
            /\ pollOptions' = OptionsOfPoll(PollId)
            /\ pollData' = Texts(OptionsOfPoll(PollId))
            /\ shown' = Nothing
    /\ UNCHANGED <<toCreate, toDelete, toKeep, idx, submits>>
    /\ voteCalls' = <<>>
    /\ UNCHANGED <<rVars, gVars, sVars, createVars, storeVars, voteVars, deleteVars>>

\* the page is left while it shows the form: the navigation of router.push
\* of the fetchPoll effect is done, or the user goes to another page
LeaveEditPage ==
    /\ editPc = "form"
    /\ editPc' = "closed"
    /\ shown' = Nothing
    /\ UNCHANGED <<editUser, pollOptions, pollData, toCreate, toDelete, toKeep, idx, calls,
                   submits>>
    /\ voteCalls' = <<>>
    /\ UNCHANGED <<rVars, gVars, sVars, createVars, storeVars, voteVars, deleteVars>>

\* the lists the form can hold after addOption, removeOption and updateOption,
\* from the list it holds: removeOption is offered only above MinFormOptions
FormCanHold(held, options) ==
    Len(options) >= (IF Len(held) < MinFormOptions THEN Len(held) ELSE MinFormOptions)

\* every option input is `required`: the browser submits no form with an
\* empty field
RequiredFilled(options) == \A i \in 1..Len(options) : options[i] # TextEmpty

\* handleSubmit up to the first await: the texts are those of the form
Submit(options) ==
    /\ editPc = "form"
    /\ editUser # NoUser
    /\ FormCanHold(pollData, options)
    /\ RequiredFilled(options)
    /\ pollData' = options
    /\ submits' = submits + 1
    /\ editPc' = "update"
    /\ shown' = Nothing
    /\ calls' = <<>>
    /\ toCreate' = <<>> /\ toDelete' = <<>> /\ toKeep' = {} /\ idx' = 0
    /\ UNCHANGED <<editUser, pollOptions>>
    /\ voteCalls' = <<>>
    /\ UNCHANGED <<rVars, gVars, sVars, createVars, storeVars, voteVars, deleteVars>>

\* Step 1, the update of the poll row, and Steps 2 and 3, the reconciliation
UpdatePoll(ok) ==
    /\ editPc = "update"
    /\ IF PollUpdateThrows(ok)
       THEN Failed(Call("updatePoll", 0, ok, 0),
                   <<"Failed to update poll: ", "store error">>)
       ELSE LET r == Reconcile(pollOptions, pollData)
            IN /\ polls' = IF ok
                           THEN (polls \ OwnPollRows(editUser, PollId))
                                   \cup {UpdatedPollRow(q) :
                                             q \in OwnPollRows(editUser, PollId)}
                           ELSE polls
               /\ toKeep' = r.toKeep
               /\ toCreate' = r.toCreate
               /\ toDelete' = r.toDelete
               /\ idx' = 1
               /\ editPc' = AfterCreate(r.toCreate, r.toDelete, 1)
               /\ calls' = Append(calls, Call("updatePoll", 0, ok, 0))
               /\ shown' = Nothing
               /\ UNCHANGED <<poll_options, votes, nextOptionId>>
               /\ UNCHANGED <<editUser, pollOptions, pollData, submits>>
    /\ voteCalls' = <<>>
    /\ UNCHANGED <<rVars, gVars, sVars, createVars, voteVars, deleteVars>>

\* an inserted row that loses the submitted text
InsertedOptionRowBlank(id, optionText) ==
    [id |-> id, poll_id |-> PollId, option_text |-> TextEmpty]

\* .insert({ poll_id: poll_id, option_text: optionText })
InsertedOptionRow(id, optionText) ==
    [id |-> id, poll_id |-> PollId, option_text |-> optionText]

\* Step 4, one insert of the loop over optionsToCreate
InsertOption(ok) ==
    /\ editPc = "create"
    /\ IF ok /\ CanInsertOption(editUser, PollId)
       THEN /\ poll_options' = Append(poll_options,
                                       InsertedOptionRow(nextOptionId, toCreate[idx]))
            /\ nextOptionId' = nextOptionId + 1
            /\ idx' = IF idx < Len(toCreate) THEN idx + 1 ELSE 1
            /\ editPc' = AfterCreate(toCreate, toDelete, idx + 1)
            /\ calls' = Append(calls, Call("insertOption", nextOptionId, TRUE, 0))
            /\ shown' = Nothing
            /\ UNCHANGED <<polls, votes>>
            /\ UNCHANGED <<editUser, pollOptions, pollData, toCreate, toDelete, toKeep,
                           submits>>
       ELSE Failed(Call("insertOption", 0, FALSE, 0),
                   <<"Failed to create option: ",
                     IF ok THEN "row-level security or foreign key" ELSE "store error">>)
    /\ voteCalls' = <<>>
    /\ UNCHANGED <<rVars, gVars, sVars, createVars, voteVars, deleteVars>>

\* Step 5, checkVotesForOptionSecure(option.id)
CheckVotes(ok) ==
    /\ editPc = "check"
    /\ LET o == toDelete[idx].id
           n == Cardinality(VotesOfOptions({o}))
       IN IF ActionError(ok, editUser, o) = "ok"
          THEN /\ editPc' = AfterCheck(n)
               /\ calls' = Append(calls, Call("checkVotes", o, TRUE, n))
               /\ shown' = Nothing
               /\ UNCHANGED storeVars
               /\ UNCHANGED <<editUser, pollOptions, pollData, toCreate, toDelete, toKeep,
                              idx, submits>>
          ELSE Failed(Call("checkVotes", o, FALSE, 0),
                      <<"Failed to check votes: ", ActionError(ok, editUser, o)>>)
    /\ voteCalls' = <<>>
    /\ UNCHANGED <<rVars, gVars, sVars, createVars, voteVars, deleteVars>>

\* Step 5, deleteVotesForOptionSecure(option.id)
DeleteVotes(ok) ==
    /\ editPc = "deleteVotes"
    /\ LET o == toDelete[idx].id
       IN IF ActionError(ok, editUser, o) = "ok"
          THEN /\ votes' = votes \ OwnVotesOfOption(editUser, o)
               /\ editPc' = "deleteOption"
               /\ calls' = Append(calls, Call("deleteVotes", o, TRUE, 0))
               /\ shown' = Nothing
               /\ UNCHANGED <<polls, poll_options, nextOptionId>>
               /\ UNCHANGED <<editUser, pollOptions, pollData, toCreate, toDelete, toKeep,
                              idx, submits>>
          ELSE Failed(Call("deleteVotes", o, FALSE, 0),
                      <<"Failed to delete votes for option: ",
                        ActionError(ok, editUser, o)>>)
    /\ voteCalls' = <<>>
    /\ UNCHANGED <<rVars, gVars, sVars, createVars, voteVars, deleteVars>>

\* Step 5, deletePollOptionSecure(option.id)
DeleteOption(ok) ==
    /\ editPc = "deleteOption"
    /\ LET o == toDelete[idx].id
       IN IF ActionError(ok, editUser, o) = "ok"
          THEN /\ poll_options' = OptionsAfterOptionDelete(o)
               /\ votes' = VotesAfterOptionDelete(o)
               /\ idx' = idx + 1
               /\ editPc' = AfterDelete(toDelete, idx + 1)
               /\ calls' = Append(calls, Call("deleteOption", o, TRUE, 0))
               /\ shown' = Nothing
               /\ UNCHANGED <<polls, nextOptionId>>
               /\ UNCHANGED <<editUser, pollOptions, pollData, toCreate, toDelete, toKeep,
                              submits>>
          ELSE Failed(Call("deleteOption", o, FALSE, 0),
                      <<"Failed to delete poll option: ",
                        ActionError(ok, editUser, o)>>)
    /\ voteCalls' = <<>>
    /\ UNCHANGED <<rVars, gVars, sVars, createVars, voteVars, deleteVars>>

\* Steps 6 and 7: the options are fetched again, the success toast, router.push
RefreshOptions(ok) ==
    /\ editPc = "refresh"
    /\ IF ok
       THEN /\ pollOptions' = OptionsOfPoll(PollId)
            /\ pollData' = Texts(OptionsOfPoll(PollId))
       ELSE UNCHANGED <<pollOptions, pollData>>
    /\ shown' = Shown("handleSubmit", editUser, "Poll updated", "none")
    /\ editPc' = "closed"
    /\ calls' = Append(calls, Call("fetchOptions", 0, ok, 0))
    /\ UNCHANGED <<editUser, toCreate, toDelete, toKeep, idx, submits>>
    /\ voteCalls' = <<>>
    /\ UNCHANGED <<rVars, gVars, sVars, createVars, storeVars, voteVars, deleteVars>>

\* ------------------------------------------------------------------------
\* Create page
\* ------------------------------------------------------------------------
MinTitleLength == 3
MaxTitleLength == 200
MaxDescriptionLength == 500
MaxOptionLength == 100
\* filledOptions.length < 2
MinFilledOptions == 2

NoPoll == "none"

\* poll.id of the n-th poll inserted by the create page (gen_random_uuid)
NewPollId(n) == IF n = 1 THEN "p2" ELSE IF n = 2 THEN "p3" ELSE "p4"

PollIds == {PollId} \cup {NewPollId(n) : n \in 1..MaxCreates}

Form(title, description, options) ==
    [title |-> title, description |-> description, options |-> options]

\* useState({ title: "", description: "", options: ["", ""] })
EmptyForm == Form(<<>>, <<>>, <<TextEmpty, TextEmpty>>)

\* the contents of the create form tried in the system
CreateForms ==
    {EmptyForm,
     Form(NewTitle, <<>>, <<TextA, TextB>>),
     Form(<<" ">> \o NewTitle, <<"d">>, <<TextSpA, TextUpA \o TextB, TextSpace>>),
     Form(NewTitle, <<>>, <<TextA>>),
     Form(<<" ">>, <<>>, <<TextA, TextB>>),
     Form(<<"n", "e">>, <<>>, <<TextA, TextB>>),
     Form(NewTitle, <<>>, <<TextA, TextSpace>>),
     Form(NewTitle, <<>>, <<TextA, TextUpA>>),
     Form(NewTitle, <<>>, <<TextA, TextSpA>>),
     Form(NewTitle, <<>>, <<TextA, TextB, TextA>>)}

\* `required` on the title and on every option, removeOption above two fields
CreateFormSubmittable(form) ==
    /\ form.title # <<>>
    /\ RequiredFilled(form.options)
    /\ FormCanHold(EmptyForm.options, form.options)

\* pollData.options.filter(option => option.trim())
FilledOptions(options) == SelectSeq(options, NonBlank)

\* pollData.options.map(opt => opt.trim().toLowerCase()).filter(opt => opt)
TrimmedOptions(options) ==
    LET lowered == [i \in 1..Len(options) |-> ToLowerCase(Trim(options[i]))]
        NotEmpty(t) == t # <<>>
    IN SelectSeq(lowered, NotEmpty)

\* validateForm: the keys of newErrors
ValidateForm(form) ==
    (IF \/ Trim(form.title) = <<>>
        \/ Len(Trim(form.title)) < MinTitleLength
        \/ Len(Trim(form.title)) > MaxTitleLength
     THEN {"title"} ELSE {})
    \cup (IF form.description # <<>> /\ Len(form.description) > MaxDescriptionLength
          THEN {"description"} ELSE {})
    \cup (IF \/ Len(FilledOptions(form.options)) < MinFilledOptions
             \/ \E i \in 1..Len(form.options) :
                   Trim(form.options[i]) # <<>>
                   /\ Len(Trim(form.options[i])) > MaxOptionLength
             \/ Len(TrimmedOptions(form.options))
                   # Cardinality(Range(TrimmedOptions(form.options)))
          THEN {"options"} ELSE {})

\* the rows of the bulk insert of Step 2, with ids from n on
NewOptionRows(poll, options, n) ==
    [i \in 1..Len(FilledOptions(options)) |->
        [id |-> n + i - 1, poll_id |-> poll, option_text |-> Trim(FilledOptions(options)[i])]]

CreateCall(op, ok) == [op |-> op, ok |-> ok]

\* the create handleSubmit up to the first await: authentication, validation
CreateSubmit(user, form) ==
    /\ createPc = "form"
    /\ creates < MaxCreates
    /\ CreateFormSubmittable(form)
    /\ creates' = creates + 1
    /\ createUser' = user
    /\ createForm' = form
    /\ createCalls' = <<>>
    /\ createdPoll' = NoPoll
    /\ IF user = NoUser
       THEN /\ shown' = Shown("createPoll", user, "handleError", "User not authenticated")
            /\ UNCHANGED <<createPc, createErrors>>
       ELSE IF ValidateForm(form) # {}
       THEN /\ createErrors' = ValidateForm(form)
            /\ shown' = Nothing
            /\ UNCHANGED createPc
       ELSE /\ createErrors' = {}
            /\ createPc' = "insertPoll"
            /\ shown' = Nothing
    /\ voteCalls' = <<>>
    /\ UNCHANGED <<rVars, gVars, sVars, storeVars, editVars, voteVars, deleteVars>>

\* a handler that goes on to the options whatever the poll insert returned
AfterInsertPollAlways(ok) == "insertOptions"

\* if (pollError) { handleError(...); return }
AfterInsertPoll(ok) == IF ok THEN "insertOptions" ELSE "form"

\* Step 1: the insert of the poll row with the trimmed title and user.id
InsertPoll(ok) ==
    /\ createPc = "insertPoll"
    /\ IF ok
       THEN /\ polls' = polls \cup {[id |-> NewPollId(creates), user_id |-> createUser,
                                     title |-> Trim(createForm.title)]}
            /\ createdPoll' = NewPollId(creates)
            /\ createPc' = AfterInsertPoll(ok)
            /\ shown' = Nothing
       ELSE /\ createPc' = AfterInsertPoll(ok)
            /\ shown' = Shown("createPoll", createUser, "handleError", "Failed to create poll")
            /\ UNCHANGED <<polls, createdPoll>>
    /\ createCalls' = Append(createCalls, CreateCall("insertPoll", ok))
    /\ voteCalls' = <<>>
    /\ UNCHANGED <<poll_options, votes, nextOptionId>>
    /\ UNCHANGED <<createUser, createForm, createErrors, creates>>
    /\ UNCHANGED <<rVars, gVars, sVars, editVars, voteVars, deleteVars>>

\* Step 2: the insert of the option rows, then Steps 3 and 4
InsertOptions(ok) ==
    /\ createPc = "insertOptions"
    /\ IF ok /\ CanInsertOption(createUser, createdPoll)
       THEN /\ poll_options' = poll_options
                   \o NewOptionRows(createdPoll, createForm.options, nextOptionId)
            /\ nextOptionId' = nextOptionId + Len(FilledOptions(createForm.options))
            /\ createForm' = EmptyForm
            /\ shown' = Shown("createPoll", createUser, "Success", "none")
       ELSE /\ shown' = Shown("createPoll", createUser, "handleError",
                              "Failed to create poll options")
            /\ UNCHANGED <<poll_options, nextOptionId, createForm>>
    /\ createPc' = "form"
    /\ createCalls' = Append(createCalls,
          CreateCall("insertOptions", ok /\ CanInsertOption(createUser, createdPoll)))
    /\ voteCalls' = <<>>
    /\ UNCHANGED <<polls, votes>>
    /\ UNCHANGED <<createUser, createErrors, createdPoll, creates>>
    /\ UNCHANGED <<rVars, gVars, sVars, editVars, voteVars, deleteVars>>

\* ------------------------------------------------------------------------
\* Vote page
\* ------------------------------------------------------------------------
\* the checkIfVoted effect of the page of `user`
CheckIfVoted(user) ==
    /\ user # NoUser
    /\ ~hasVoted[user]
    /\ \E v \in votes : v.poll_id = votePoll[user] /\ v.user_id = user
    /\ hasVoted' = [hasVoted EXCEPT ![user] = TRUE]
    /\ shown' = Nothing
    /\ voteCalls' = <<>>
    /\ UNCHANGED votePoll
    /\ UNCHANGED <<rVars, gVars, sVars, createVars, storeVars, editVars, deleteVars>>

\* the page of `user` is loaded again: its state starts over
ReloadVotePage(user) ==
    /\ hasVoted[user]
    /\ hasVoted' = [hasVoted EXCEPT ![user] = FALSE]
    /\ shown' = Nothing
    /\ voteCalls' = <<>>
    /\ UNCHANGED votePoll
    /\ UNCHANGED <<rVars, gVars, sVars, createVars, storeVars, editVars, deleteVars>>

\* the page of `user` is opened on poll: its state starts over
OpenVotePage(user, poll) ==
    /\ PollRows(poll) # {}
    /\ votePoll[user] # poll
    /\ votePoll' = [votePoll EXCEPT ![user] = poll]
    /\ hasVoted' = [hasVoted EXCEPT ![user] = FALSE]
    /\ shown' = Nothing
    /\ voteCalls' = <<>>
    /\ UNCHANGED <<rVars, gVars, sVars, createVars, storeVars, editVars, deleteVars>>

\* fetchOptions with the poll of every option
FetchedOptionIdsAnyPoll(poll) == Ids(poll_options)

\* fetchOptions: from('poll_options').select('*').eq('poll_id', poll_id)
FetchedOptionIds(poll) == Ids(OptionsOfPoll(poll))

\* the insert of handleVote as the store receives it
VoteCall(poll, option, user, ok) ==
    [op |-> "insertVote", poll_id |-> poll, option_id |-> option, user_id |-> user,
     ok |-> ok]

\* a guard that lets every click through to the insert
VoteRejectedNever(user, selectedOption) == FALSE

\* if (selectedOption === null || !user); null is 0
VoteRejected(user, selectedOption) == selectedOption = 0 \/ user = NoUser

\* handleVote of the page of `user`, with selectedOption one of the options
\* the page has fetched at some time, or null (0); the Vote button is there
\* while hasVoted is false
HandleVote(user, selectedOption, ok) ==
    /\ ~hasVoted[user]
    /\ IF VoteRejected(user, selectedOption)
       THEN /\ shown' = Shown("handleVote", user, "Please select an option", "none")
            /\ voteCalls' = <<>>
            /\ UNCHANGED <<votes, hasVoted>>
       ELSE IF ok /\ CanInsertVote(user, votePoll[user], selectedOption, user)
       THEN /\ votes' = votes \cup {[id |-> FreshVoteId(user), poll_id |-> votePoll[user],
                                     option_id |-> selectedOption, user_id |-> user]}
            /\ hasVoted' = [hasVoted EXCEPT ![user] = TRUE]
            /\ shown' = Shown("handleVote", user, "Thank you for voting!", "none")
            /\ voteCalls' = <<VoteCall(votePoll[user], selectedOption, user, TRUE)>>
       ELSE /\ shown' = Shown("handleVote", user, "Error casting vote",
                              VoteInsertError(ok, user, votePoll[user], selectedOption, user))
            /\ voteCalls' = <<VoteCall(votePoll[user], selectedOption, user, FALSE)>>
            /\ UNCHANGED <<votes, hasVoted>>
    /\ UNCHANGED <<polls, poll_options, nextOptionId, votePoll>>
    /\ UNCHANGED <<rVars, gVars, sVars, createVars, editVars, deleteVars>>

\* ------------------------------------------------------------------------
\* Poll actions component
\* ------------------------------------------------------------------------
\* a validation that lets every user id through
ValidateUserIdAlways(userId) == TRUE

\* PollValidator.validateUserId:
\* !userId || typeof userId !== 'string' || userId.trim().length === 0
ValidateUserId(userId) ==
    ~(userId = NoUser \/ userId = <<>> \/ Len(Trim(userId)) = 0)

\* a gate that authorizes every user
CheckPollOwnershipAlways(currentUserId, pollCreatorId) == TRUE

\* PollAuthenticator.checkPollOwnership
CheckPollOwnership(currentUserId, pollCreatorId) ==
    ValidateUserId(currentUserId) /\ currentUserId = pollCreatorId

\* ErrorHandler.getStandardErrorMessage: the mapped message, or the fallback
GetStandardErrorMessage(error) ==
    IF error = "Invalid poll ID provided" THEN "The poll could not be found."
    ELSE IF error = "User not authenticated" THEN "Please log in to perform this action."
    ELSE IF error = "User not authorized to perform this action"
         THEN "You can only modify polls you created."
    ELSE IF error = "Failed to delete poll"
         THEN "Unable to delete the poll. Please try again."
    ELSE "An unexpected error occurred. Please try again."

\* a component that offers its controls to every signed-in user
RendersControlsWhenSignedIn(currentUserId, pollCreatorId) == currentUserId # NoUser

\* if (!authResult.isAuthorized) return null: the controls are rendered
RendersControls(currentUserId, pollCreatorId) ==
    CheckPollOwnership(currentUserId, pollCreatorId)

\* a handler that starts a delete whatever isDeleting is
ConfirmIgnoredNever(deleting) == FALSE

\* if (isDeleting) return
ConfirmIgnored(deleting) == deleting

\* a handler that resets the loading state on success only
IsDeletingAfterOnSuccess(deleting, ok) == IF ok THEN FALSE ELSE deleting

\* finally { setIsDeleting(false) }
IsDeletingAfter(deleting, ok) == FALSE

\* the refresh after a delete, with the fallback taken as well
RefreshAfterDeleteBoth(provided) ==
    IF provided THEN <<"onPollDeleted", "router.refresh">> ELSE <<"router.refresh">>

\* if (onPollDeleted) onPollDeleted() else router.refresh()
RefreshAfterDelete(provided) ==
    IF provided THEN <<"onPollDeleted">> ELSE <<"router.refresh">>

\* a click on the confirm button: handleDeleteConfirm up to the await of
\* PollOperations.deletePoll, in the component rendered for currentUserId on
\* the poll, with or without the prop onPollDeleted
DeleteConfirm(currentUserId, provided) ==
    /\ \E q \in PollRows(PollId) : RendersControls(currentUserId, q.user_id)
    /\ isDeleting => (currentUserId = deleteUser /\ provided = onPollDeleted)
    /\ IF ConfirmIgnored(isDeleting)
       THEN /\ confirmClicks < MaxConfirmClicks
            /\ confirmClicks' = confirmClicks + 1
            /\ UNCHANGED <<isDeleting, deleteUser, deleteCalls, onPollDeleted, refreshCalls,
                           deleteInFlight>>
       ELSE /\ isDeleting' = TRUE
            /\ confirmClicks' = 1
            /\ deleteUser' = currentUserId
            /\ onPollDeleted' = provided
            /\ deleteCalls' = <<>>
            /\ refreshCalls' = <<>>
            /\ deleteInFlight' = deleteInFlight + 1
    /\ shown' = Nothing
    /\ voteCalls' = <<>>
    /\ UNCHANGED <<rVars, gVars, sVars, createVars, storeVars, editVars, voteVars>>

\* PollOperations.deletePoll, one delete on the poll row, and the rest of
\* handleDeleteConfirm
DeletePoll(ok) ==
    /\ deleteInFlight > 0
    /\ IF ok
       THEN /\ polls' = polls \ OwnPollRows(deleteUser, PollId)
            /\ poll_options' = IF OwnPollRows(deleteUser, PollId) # {}
                               THEN OptionsAfterPollDelete(PollId) ELSE poll_options
            /\ votes' = IF OwnPollRows(deleteUser, PollId) # {}
                        THEN VotesAfterPollDelete(PollId) ELSE votes
            /\ shown' = Shown("handleDeleteConfirm", deleteUser, "Poll deleted", "none")
            /\ refreshCalls' = refreshCalls \o RefreshAfterDelete(onPollDeleted)
       ELSE /\ shown' = Shown("handleDeleteConfirm", deleteUser, "Error",
                              GetStandardErrorMessage("store error"))
            /\ UNCHANGED <<polls, poll_options, votes, refreshCalls>>
    /\ isDeleting' = IsDeletingAfter(isDeleting, ok)
    /\ deleteInFlight' = deleteInFlight - 1
    /\ confirmClicks' = 0
    /\ deleteCalls' = Append(deleteCalls,
          [op |-> "deletePoll", id |-> PollId, ok |-> ok])
    /\ UNCHANGED <<nextOptionId, deleteUser, onPollDeleted>>
    /\ voteCalls' = <<>>
    /\ UNCHANGED <<rVars, gVars, sVars, createVars, editVars, voteVars>>

\* ------------------------------------------------------------------------
\* The system
\* ------------------------------------------------------------------------
InitStore ==
    /\ polls = {[id |-> PollId, user_id |-> UserU1, title |-> OldTitle]}
    /\ poll_options = <<[id |-> 1, poll_id |-> PollId, option_text |-> TextA],
                        [id |-> 2, poll_id |-> PollId, option_text |-> TextB]>>
    /\ votes = {}
    /\ nextOptionId = 3

InitPages ==
    /\ editPc = "closed"
    /\ editUser = NoUser
    /\ pollOptions = <<>>
    /\ pollData = <<TextEmpty, TextEmpty>>
    /\ toCreate = <<>> /\ toDelete = <<>> /\ toKeep = {} /\ idx = 0
    /\ calls = <<>>
    /\ submits = 0
    /\ hasVoted = [u \in Sessions |-> FALSE]
    /\ votePoll = [u \in Sessions |-> PollId]
    /\ voteCalls = <<>>
    /\ isDeleting = FALSE
    /\ deleteUser = NoUser
    /\ deleteCalls = <<>>
    /\ onPollDeleted = TRUE
    /\ refreshCalls = <<>>
    /\ deleteInFlight = 0
    /\ confirmClicks = 0
    /\ createPc = "form"
    /\ createUser = NoUser
    /\ createForm = EmptyForm
    /\ createErrors = {}
    /\ createdPoll = NoPoll
    /\ createCalls = <<>>
    /\ creates = 0
    /\ secureResult = NoSecureResult
    /\ secureCalls = 0
    /\ shown = Nothing

InitIdleReconciler ==
    /\ rExisting = <<>>
    /\ rSubmitted = <<>>
    /\ rResult = NoResult
    /\ rDone = TRUE

InitIdleGate ==
    /\ gCurrentUserId = NoUser
    /\ gPollCreatorId = <<>>
    /\ gAuthorized = FALSE
    /\ gRendered = FALSE
    /\ gDone = TRUE

Init == InitStore /\ InitPages /\ InitIdleReconciler /\ InitIdleGate

Next ==
    \/ \E user \in Sessions : submits < MaxSubmits /\ LoadEditPage(user)
    \/ \E options \in EditInputs : submits < MaxSubmits /\ Submit(options)
    \/ \E ok \in BOOLEAN : UpdatePoll(ok)
    \/ \E ok \in BOOLEAN : InsertOption(ok)
    \/ \E ok \in BOOLEAN : CheckVotes(ok)
    \/ \E ok \in BOOLEAN : DeleteVotes(ok)
    \/ \E ok \in BOOLEAN : DeleteOption(ok)
    \/ \E ok \in BOOLEAN : RefreshOptions(ok)
    \/ \E user \in Users : CheckIfVoted(user)
    \/ \E user \in Users : ReloadVotePage(user)
    \/ \E user \in Sessions, selectedOption \in 0..(nextOptionId - 1), ok \in BOOLEAN :
          HandleVote(user, selectedOption, ok)
    \/ \E currentUserId \in Sessions : ~isDeleting /\ DeleteConfirm(currentUserId, TRUE)
    \/ \E ok \in BOOLEAN : DeletePoll(ok)

Spec == Init /\ [][Next]_vars

\* ------------------------------------------------------------------------
\* The reconciler on its own, over every input within the bounds
\* ------------------------------------------------------------------------
InitReconcile ==
    /\ rExisting \in ExistingInputs
    /\ rSubmitted \in SubmittedInputs
    /\ rResult = NoResult
    /\ rDone = FALSE
    /\ InitStore
    /\ InitPages
    /\ InitIdleGate

RunReconcile ==
    /\ ~rDone
    /\ rResult' = Reconcile(rExisting, rSubmitted)
    /\ rDone' = TRUE
    /\ UNCHANGED <<rExisting, rSubmitted>>
    /\ UNCHANGED <<gVars, sVars, storeVars, editVars, voteVars, deleteVars, createVars, shown,
                   voteCalls>>

NextReconcile == RunReconcile

SpecReconcile == InitReconcile /\ [][NextReconcile]_vars

\* ------------------------------------------------------------------------
\* The polls: creation of polls and votes across polls
\* ------------------------------------------------------------------------
NextCreate ==
    \/ \E user \in Sessions, form \in CreateForms : CreateSubmit(user, form)
    \/ \E ok \in BOOLEAN : InsertPoll(ok)
    \/ \E ok \in BOOLEAN : InsertOptions(ok)
    \/ \E user \in Users, poll \in PollIds : OpenVotePage(user, poll)
    \/ \E user \in Sessions, ok \in BOOLEAN :
          \E selectedOption \in FetchedOptionIds(votePoll[user]) \cup {0} :
              /\ Cardinality(votes) < MaxVotes
              /\ HandleVote(user, selectedOption, ok)

SpecCreate == Init /\ [][NextCreate]_vars

\* ------------------------------------------------------------------------
\* The edit page on its own: every session opens it, submits and leaves it,
\* while the voters vote
\* ------------------------------------------------------------------------
NextEdit ==
    \/ \E user \in Sessions : submits < MaxEditSubmits /\ LoadEditPage(user)
    \/ LeaveEditPage
    \/ \E options \in EditInputs : submits < MaxEditSubmits /\ Submit(options)
    \/ \E ok \in BOOLEAN : UpdatePoll(ok)
    \/ \E ok \in BOOLEAN : InsertOption(ok)
    \/ \E ok \in BOOLEAN : CheckVotes(ok)
    \/ \E ok \in BOOLEAN : DeleteVotes(ok)
    \/ \E ok \in BOOLEAN : DeleteOption(ok)
    \/ \E ok \in BOOLEAN : RefreshOptions(ok)
    \/ \E user \in Users, selectedOption \in 1..(nextOptionId - 1) :
          /\ Cardinality(votes) < MaxVotes
          /\ HandleVote(user, selectedOption, TRUE)

SpecEdit == Init /\ [][NextEdit]_vars

\* ------------------------------------------------------------------------
\* The server actions on their own: every session calls them on every option
\* id, on options with and without votes
\* ------------------------------------------------------------------------
\* option ids a caller can pass: those of the rows and one of no row
SecureOptionIds == 1..nextOptionId

NextSecure ==
    \/ \E uid \in Sessions, o \in SecureOptionIds, ok \in BOOLEAN :
          SecureCheckVotes(uid, o, ok)
    \/ \E uid \in Sessions, o \in SecureOptionIds, ok \in BOOLEAN :
          SecureDeleteVotes(uid, o, ok)
    \/ \E uid \in Sessions, o \in SecureOptionIds, ok \in BOOLEAN :
          SecureDeleteOption(uid, o, ok)
    \/ \E user \in Users, selectedOption \in 1..(nextOptionId - 1) :
          /\ Cardinality(votes) < MaxVotes
          /\ HandleVote(user, selectedOption, TRUE)

SpecSecure == Init /\ [][NextSecure]_vars

\* ------------------------------------------------------------------------
\* The poll actions component, with and without onPollDeleted, and the voters
\* ------------------------------------------------------------------------
NextActions ==
    \/ \E currentUserId \in Sessions, provided \in BOOLEAN :
          DeleteConfirm(currentUserId, provided)
    \/ \E ok \in BOOLEAN : DeletePoll(ok)
    \/ \E user \in Sessions, selectedOption \in 0..(nextOptionId - 1), ok \in BOOLEAN :
          HandleVote(user, selectedOption, ok)

SpecActions == Init /\ [][NextActions]_vars

\* the promise of the delete settles: the call returns, with or without error
SpecActionsFair == SpecActions /\ WF_vars(\E ok \in BOOLEAN : DeletePoll(ok))

\* ------------------------------------------------------------------------
\* The ownership gate on its own, over every pair of ids within the bounds
\* ------------------------------------------------------------------------
\* characters of a user id: whitespace and two others
IdChars == {" ", "u", "1"}

\* pollCreatorId: string
GateOwnerIds == SeqsUpTo(IdChars, MaxIdLen)

\* currentUserId: string | undefined
GateUserIds == GateOwnerIds \cup {NoUser}

InitGate ==
    /\ gCurrentUserId \in GateUserIds
    /\ gPollCreatorId \in GateOwnerIds
    /\ gAuthorized = FALSE
    /\ gRendered = FALSE
    /\ gDone = FALSE
    /\ InitStore
    /\ InitPages
    /\ InitIdleReconciler

RunGate ==
    /\ ~gDone
    /\ gAuthorized' = CheckPollOwnership(gCurrentUserId, gPollCreatorId)
    /\ gRendered' = RendersControls(gCurrentUserId, gPollCreatorId)
    /\ gDone' = TRUE
    /\ UNCHANGED <<gCurrentUserId, gPollCreatorId>>
    /\ UNCHANGED <<rVars, sVars, storeVars, editVars, voteVars, deleteVars, createVars, shown,
                   voteCalls>>

NextGate == RunGate

SpecGate == InitGate /\ [][NextGate]_vars

\* ------------------------------------------------------------------------
\* Properties of the reconciler on its own
\* ------------------------------------------------------------------------
\* a text made of whitespace only (the empty text included)
IsBlankText(t) == \A i \in 1..Len(t) : t[i] \in Whitespace

IsNotBlankText(t) == ~IsBlankText(t)

\* occurrences of t among the first n entries of the list of texts s
CountIn(t, s, n) == Cardinality({i \in 1..n : s[i] = t})

\* rows with text t among the first n rows
CountRows(t, rows, n) == Cardinality({i \in 1..n : rows[i].option_text = t})

\* the subsequence of s at the positions in P
RECURSIVE PickFrom(_, _, _)
PickFrom(s, P, n) ==
    IF n > Len(s) THEN <<>>
    ELSE IF n \in P THEN <<s[n]>> \o PickFrom(s, P, n + 1) ELSE PickFrom(s, P, n + 1)

\* C1: the kept ids and the ids of toDelete are disjoint and together are
\* exactly the ids of the existing options.
C1_ReconcilerPartition ==
    rDone =>
        /\ rResult.toKeep \cap Ids(rResult.toDelete) = {}
        /\ rResult.toKeep \cup Ids(rResult.toDelete) = Ids(rExisting)

C1_Witness ==
    /\ rDone
    /\ rResult.toKeep # {}
    /\ rResult.toDelete # <<>>
    /\ Len(rExisting) = MaxExisting

\* C4: a text submitted k times with m < k existing options of that text keeps
\* all m of them and creates it k - m times; [{1,"a"}] with ["a","a"] gives
\* toKeep = {1}, toCreate = ["a"], toDelete = [].
C4_DuplicateTieBreak ==
    rDone =>
        /\ \A t \in OptionTexts :
              LET k == CountIn(t, rSubmitted, Len(rSubmitted))
                  m == CountRows(t, rExisting, Len(rExisting))
                  keptOfT == {i \in 1..Len(rExisting) :
                                /\ rExisting[i].option_text = t
                                /\ rExisting[i].id \in rResult.toKeep}
              IN m < k =>
                   /\ Cardinality(keptOfT) = m
                   /\ CountIn(t, rResult.toCreate, Len(rResult.toCreate)) = k - m
                   /\ \A i \in 1..Len(rResult.toDelete) :
                         rResult.toDelete[i].option_text # t
        /\ (rExisting = <<[id |-> 1, option_text |-> TextA]>> /\ rSubmitted = <<TextA, TextA>>)
              => rResult = [toKeep |-> {1}, toCreate |-> <<TextA>>, toDelete |-> <<>>]

C4_Witness ==
    /\ rDone
    /\ rExisting = <<[id |-> 1, option_text |-> TextA]>>
    /\ rSubmitted = <<TextA, TextA>>
    /\ rResult.toCreate = <<TextA>>

\* C5: the j-th occurrence of a text among the non-blank submitted texts is
\* matched to the j-th existing option of that text when there is one and is
\* created otherwise; toCreate and toDelete keep submission and existing order.
\* [{1,x},{2,y}] with [x,z] gives toKeep = {1}, toCreate = [z], toDelete = [{2,y}].
C5_ReconcilerResult ==
    rDone =>
        LET S == SelectSeq(rSubmitted, IsNotBlankText)
            keptPos == {i \in 1..Len(rExisting) :
                          CountRows(rExisting[i].option_text, rExisting, i)
                             <= CountIn(rExisting[i].option_text, S, Len(S))}
            createPos == {p \in 1..Len(S) :
                            CountIn(S[p], S, p) > CountRows(S[p], rExisting, Len(rExisting))}
        IN /\ rResult.toKeep = {rExisting[i].id : i \in keptPos}
           /\ rResult.toCreate = PickFrom(S, createPos, 1)
           /\ rResult.toDelete = PickFrom(rExisting, (1..Len(rExisting)) \ keptPos, 1)
           /\ (/\ rExisting = <<[id |-> 1, option_text |-> TextA],
                                 [id |-> 2, option_text |-> TextB]>>
               /\ rSubmitted = <<TextA, TextSpA>>)
                 => rResult = [toKeep |-> {1}, toCreate |-> <<TextSpA>>,
                               toDelete |-> <<[id |-> 2, option_text |-> TextB]>>]

C5_Witness ==
    /\ rDone
    /\ rExisting = <<[id |-> 1, option_text |-> TextA], [id |-> 2, option_text |-> TextB]>>
    /\ rSubmitted = <<TextA, TextSpA>>
    /\ rResult.toDelete = <<[id |-> 2, option_text |-> TextB]>>

\* C7: blank submitted entries never reach toCreate and never consume an
\* existing option: the result is that of the list without them.
C7_BlankFiltering ==
    rDone =>
        /\ \A i \in 1..Len(rResult.toCreate) : ~IsBlankText(rResult.toCreate[i])
        /\ Cardinality(rResult.toKeep) + Len(rResult.toCreate)
              = Len(SelectSeq(rSubmitted, IsNotBlankText))
        /\ rResult = Reconcile(rExisting, SelectSeq(rSubmitted, IsNotBlankText))

C7_Witness ==
    /\ rDone
    /\ \E i, j \in 1..Len(rSubmitted) :
          /\ rSubmitted[i] = TextSpace
          /\ rSubmitted[j] = TextEmpty
    /\ rResult.toCreate = <<TextSpA>>

ApplyOps == {"insertOption", "checkVotes", "deleteVotes", "deleteOption"}

HasVote(u) == \E v \in votes : v.poll_id = PollId /\ v.user_id = u

\* the current run of handleSubmit has reconciled and has not yet refreshed:
\* toKeep, toCreate and toDelete are those of pollOptions and pollData
Reconciled ==
    /\ calls # <<>>
    /\ calls[1].ok
    /\ calls[Len(calls)].op # "fetchOptions"

\* the current run of handleSubmit has ended in its catch block
RunFailed ==
    /\ editPc = "form"
    /\ calls # <<>>
    /\ ~calls[Len(calls)].ok

SameMultiset(s, t) ==
    \A x \in Range(s) \cup Range(t) : CountIn(x, s, Len(s)) = CountIn(x, t, Len(t))

\* C2: every delete of an option row comes after a successful vote check for
\* that option and, when the check returned votes, after a successful vote
\* deletion for that option; only options of toDelete are deleted.
C2_DeletionOrdering ==
    \A j \in 1..Len(calls) :
        calls[j].op = "deleteOption" =>
            /\ calls[j].id \in Ids(toDelete)
            /\ \E i \in 1..(j - 1) :
                  /\ calls[i].op = "checkVotes"
                  /\ calls[i].id = calls[j].id
                  /\ calls[i].ok
                  /\ calls[i].n > 0 =>
                        \E k \in (i + 1)..(j - 1) :
                            /\ calls[k].op = "deleteVotes"
                            /\ calls[k].id = calls[j].id
                            /\ calls[k].ok

C2_Witness ==
    \E i, k, j \in 1..Len(calls) :
        /\ i < k /\ k < j
        /\ calls[i].op = "checkVotes" /\ calls[i].n > 0
        /\ calls[k].op = "deleteVotes" /\ calls[k].ok
        /\ calls[j].op = "deleteOption" /\ calls[j].ok
        /\ calls[i].id = calls[j].id /\ calls[k].id = calls[j].id

\* C3: the store never holds two vote rows of one (poll, voter) pair, and a
\* handleVote that issues the insert for a voter who has a row on the poll
\* ends with the error alert and adds no row.
C3_OneVotePerUserPerPoll ==
    /\ [](\A v, w \in votes :
            (v.poll_id = w.poll_id /\ v.user_id = w.user_id) => v = w)
    /\ [][\A u \in Users :
            (/\ HasVote(u)
             /\ shown'.by = "handleVote"
             /\ shown'.user = u
             /\ shown'.title # "Please select an option")
              => (shown'.title = "Error casting vote" /\ votes' = votes)]_vars

C3_Witness ==
    /\ shown.by = "handleVote"
    /\ shown.title = "Error casting vote"
    /\ shown.detail = "duplicate key"
    /\ HasVote(shown.user)
    /\ Cardinality(votes) = Cardinality(Users)

C9_ApplyAfterPollUpdate ==
    /\ [](calls # <<>> =>
            /\ calls[1].op = "updatePoll"
            /\ \A j \in 2..Len(calls) : calls[j].op # "updatePoll"
            /\ ~calls[1].ok => Len(calls) = 1)
    /\ [][(/\ calls = <<>>
            /\ Len(calls') = 1
            /\ ~calls'[1].ok)
             => (/\ poll_options' = poll_options
                 /\ votes' = votes
                 /\ editPc' = "form"
                 /\ shown'.title = "Error")]_vars

C9_Witness ==
    /\ RunFailed
    /\ calls = <<Call("updatePoll", 0, FALSE, 0)>>
    /\ shown.title = "Error"
    /\ Len(Reconcile(pollOptions, pollData).toCreate) > 0
    /\ Len(Reconcile(pollOptions, pollData).toDelete) > 0

\* C10: right after a successful delete of the poll, no option row and no
\* vote row of the poll is left, every vote left references rows that exist,
\* and the run has issued the one delete on the poll row.
C10_CascadingPollDelete ==
    (shown.by = "handleDeleteConfirm" /\ shown.title = "Poll deleted") =>
        /\ PollRows(PollId) = {}
        /\ OptionsOfPoll(PollId) = <<>>
        /\ VotesOfPoll(PollId) = {}
        /\ \A v \in votes : PollRows(v.poll_id) # {} /\ OptionRows(v.option_id) # {}
        /\ deleteCalls = <<[op |-> "deletePoll", id |-> PollId, ok |-> TRUE]>>

\* the poll is deleted with its two options and a vote of every user in place
C10_Witness ==
    /\ shown.by = "handleDeleteConfirm"
    /\ shown.title = "Poll deleted"
    /\ submits = 0
    /\ editPc = "closed"
    /\ \A u \in Users : hasVoted[u]
    /\ poll_options = <<>>
    /\ votes = {}

C13_EditValidatesBeforeAnyCall ==
    (calls # <<>> /\ calls[Len(calls)].op # "fetchOptions") =>
        Len(SelectSeq(pollData, IsNotBlankText)) >= MinFormOptions

\* C14: no two option rows of one poll hold exactly the same option text.
C14_OptionTextUnique ==
    \A i, j \in 1..Len(poll_options) :
        (/\ i # j
         /\ poll_options[i].poll_id = poll_options[j].poll_id)
          => poll_options[i].option_text # poll_options[j].option_text

\* C15: no step removes a vote row while leaving both the option row and the
\* poll row of the vote in the store; as option and poll ids are never used
\* again, a vote once stored is then absent only if its option or its poll is.
C15_VotesRemovedOnlyByCascade ==
    [][\A v \in votes \ votes' :
          \/ ~\E r \in Range(poll_options') : r.id = v.option_id
          \/ ~\E q \in polls' : q.id = v.poll_id]_vars

DoneInRun(op) == {calls[i].id : i \in {j \in 1..Len(calls) : calls[j].op = op /\ calls[j].ok}}

\* the options of the poll in the store are those of the list the run worked
\* on, as changed by the inserts and deletes of the run itself: the list was
\* current when the run started and nothing else has changed the options since
RunSawCurrentOptions ==
    Ids(OptionsOfPoll(PollId))
        = (Ids(pollOptions) \ DoneInRun("deleteOption")) \cup DoneInRun("insertOption")

C20_VoteOptionOfSamePoll ==
    /\ \A v \in votes :
          \E r \in Range(poll_options) : r.id = v.option_id /\ r.poll_id = v.poll_id
    /\ \A i \in 1..Len(voteCalls) :
          \E r \in Range(poll_options) :
              r.id = voteCalls[i].option_id /\ r.poll_id = voteCalls[i].poll_id

\* votes are stored on the first poll and on a poll made with the create page
C20_Witness ==
    \E v, w \in votes :
        /\ v.poll_id = PollId
        /\ w.poll_id = NewPollId(1)
        /\ Len(OptionsOfPoll(NewPollId(1))) >= MinFilledOptions

\* calls of the run with operation op on target id
CallsOf(op, id) == {i \in 1..Len(calls) : calls[i].op = op /\ calls[i].id = id}

CallsWith(op) == {i \in 1..Len(calls) : calls[i].op = op}

C18_CreatorImmutable ==
    /\ [][\A q \in polls : \A w \in polls' : q.id = w.id => q.user_id = w.user_id]_vars
    /\ [](\A q \in PollRows(PollId) : q.user_id = UserU1)
    /\ [][(polls' # polls /\ Len(calls') = Len(calls) + 1)
            => \A q \in polls : [q EXCEPT !.title = NewTitle] \in polls']_vars

\* the poll has been updated by an edit that went through, and a vote is stored
C18_Witness ==
    /\ \E q \in PollRows(PollId) : q.title = NewTitle /\ q.user_id = UserU1
    /\ editPc = "closed"
    /\ \E i \in 1..Len(calls) : calls[i].op = "deleteOption" /\ calls[i].ok
    /\ votes # {}

\* C19: every vote insert that handleVote issues carries a signed-in user and
\* a selected option; a handleVote without a user, or one that ends with the
\* alert asking for an option, issues no insert and leaves the votes as they
\* are; a vote row is only added by a step that issues the insert.
C19_VoteNeedsUserAndOption ==
    /\ [](\A i \in 1..Len(voteCalls) :
             /\ voteCalls[i].user_id \in Users
             /\ voteCalls[i].option_id # 0)
    /\ [][(shown'.by = "handleVote" /\ shown'.user = NoUser)
            => (/\ voteCalls' = <<>>
                /\ votes' = votes
                /\ shown'.title = "Please select an option")]_vars
    /\ [][(shown'.by = "handleVote" /\ shown'.title = "Please select an option")
            => (voteCalls' = <<>> /\ votes' = votes)]_vars
    /\ [][votes' \ votes # {} => Len(voteCalls') = 1]_vars

\* a signed-in user has clicked Vote with no option selected, after the other
\* user has voted
C19_Witness ==
    /\ shown.by = "handleVote"
    /\ shown.title = "Please select an option"
    /\ shown.user = UserU1
    /\ voteCalls = <<>>
    /\ \E v \in votes : v.user_id = UserU2
    /\ ~HasVote(UserU1)

\* ------------------------------------------------------------------------
\* Properties of the notifications
\* ------------------------------------------------------------------------
\* the error texts that come from the store or from a server action
StoreErrorTexts ==
    {"store error", "row-level security or foreign key", "Authentication required",
     "Failed to verify option ownership", "Not your own poll"}

\* the messages of ErrorHandler.getStandardErrorMessage
GenericMessages ==
    {"The poll could not be found.", "Please log in to perform this action.",
     "You can only modify polls you created.",
     "Unable to delete the poll. Please try again.",
     "An unexpected error occurred. Please try again."}

\* C21: the error notification of a failed store call of the poll edit or of
\* the poll delete holds a generic message and no part of it is the error text
\* of the store.
C21_GenericFailureMessage ==
    /\ (shown.by = "handleSubmit" /\ shown.title = "Error")
          => \A i \in 1..Len(shown.detail) : shown.detail[i] \notin StoreErrorTexts
    /\ (shown.by = "handleDeleteConfirm" /\ shown.title = "Error")
          => shown.detail \in GenericMessages

\* the delete call of the current run of handleDeleteConfirm has returned
DeleteReturned == Len(deleteCalls) = 1 /\ deleteInFlight = 0

\* C22: the step in which the delete call returns invokes, when the delete
\* succeeded, exactly one refresh action (onPollDeleted when provided,
\* otherwise router.refresh) with the success notification, and when it failed
\* no refresh action with the error notification; a refresh action has been
\* invoked if and only if the delete of the run has succeeded.
C22_DeleteOutcomeReporting ==
    /\ [][(deleteCalls' # deleteCalls /\ deleteCalls' # <<>>)
            => IF deleteCalls'[Len(deleteCalls')].ok
               THEN /\ refreshCalls' = IF onPollDeleted THEN <<"onPollDeleted">>
                                                        ELSE <<"router.refresh">>
                    /\ shown' = Shown("handleDeleteConfirm", deleteUser, "Poll deleted",
                                      "none")
               ELSE /\ refreshCalls' = <<>>
                    /\ shown'.by = "handleDeleteConfirm"
                    /\ shown'.title = "Error"]_vars
    /\ [](refreshCalls # <<>>
            <=> \E i \in 1..Len(deleteCalls) : deleteCalls[i].ok)
    /\ [](Len(refreshCalls) <= 1)

\* a delete without onPollDeleted has succeeded and has removed the poll
C22_Witness ==
    /\ DeleteReturned
    /\ ~onPollDeleted
    /\ refreshCalls = <<"router.refresh">>
    /\ shown.title = "Poll deleted"
    /\ PollRows(PollId) = {}

\* ------------------------------------------------------------------------
\* Properties of the create page
\* ------------------------------------------------------------------------
\* the step issues the store call op of the create handleSubmit
CreateIssues(op) ==
    /\ Len(createCalls') = Len(createCalls) + 1
    /\ createCalls'[Len(createCalls')].op = op

\* C23: an options insert is issued only right after a poll insert that
\* succeeded, and its rows carry the id that insert returned; a failed poll
\* insert is followed by no options insert, shows the error, and leaves the
\* form as it is, on the page.
C23_CreateStepOrdering ==
    /\ [](\A i \in 1..Len(createCalls) :
             createCalls[i].op = "insertOptions"
                => (i > 1 /\ createCalls[i - 1].op = "insertPoll" /\ createCalls[i - 1].ok))
    /\ [][(CreateIssues("insertPoll") /\ createCalls'[Len(createCalls')].ok)
            => (/\ \E q \in polls' \ polls : q.id = createdPoll'
                /\ createPc' = "insertOptions")]_vars
    /\ [][CreateIssues("insertOptions")
            => (/\ createdPoll # NoPoll
                /\ \A i \in (Len(poll_options) + 1)..Len(poll_options') :
                      poll_options'[i].poll_id = createdPoll)]_vars
    /\ [][(CreateIssues("insertPoll") /\ ~createCalls'[Len(createCalls')].ok)
            => (/\ createPc' = "form"
                /\ createForm' = createForm
                /\ shown' = Shown("createPoll", createUser, "handleError",
                                  "Failed to create poll")
                /\ UNCHANGED storeVars)]_vars

\* the poll insert of a valid form has failed: the form still holds the input
C23_Witness ==
    /\ createCalls = <<CreateCall("insertPoll", FALSE)>>
    /\ createPc = "form"
    /\ createForm = Form(NewTitle, <<>>, <<TextA, TextB>>)
    /\ shown.title = "handleError"

\* ------------------------------------------------------------------------
\* Properties of the edit page on its own
\* ------------------------------------------------------------------------
\* the store calls of handleSubmit that change rows
MutatingOps == {"updatePoll", "insertOption", "deleteVotes", "deleteOption"}

\* C25: every mutating store call of a run of handleSubmit is issued for the
\* creator of the poll: a signed-in user who is not the creator gets no such
\* call out of the page.
C25_EditOwnerOnly ==
    \A i \in 1..Len(calls) :
        calls[i].op \in MutatingOps => \E q \in polls : q.id = PollId /\ q.user_id = editUser

\* ------------------------------------------------------------------------
\* Properties of the server actions on their own
\* ------------------------------------------------------------------------
\* uid is signed in and is the creator of the poll that holds option row o
OwnsOption(uid, o) ==
    /\ uid # NoUser
    /\ \E r \in OptionRows(o) : uid \in OwnerOfOption(r)

\* C26: a call of one of the three server actions on option o by a caller who
\* is not signed in, or for an option that does not exist, or by a caller who
\* is not the creator of the poll of o, returns success = false with an error
\* and no vote, and leaves the store as it is; a call that changes the store
\* or returns votes is made by the creator of the poll of o, and changes or
\* returns only votes of o and the row of o.
C26_ServerOwnershipCheck ==
    [][secureCalls' = secureCalls + 1
        => LET r == secureResult'
           IN /\ ~OwnsOption(r.user, r.option)
                    => (/\ ~r.success
                        /\ r.error # "ok"
                        /\ r.votes = {}
                        /\ UNCHANGED storeVars)
              /\ (votes' # votes \/ poll_options' # poll_options \/ r.votes # {})
                    => (OwnsOption(r.user, r.option) /\ r.success)
              /\ votes \ votes' \subseteq VotesOfOptions({r.option})
              /\ Ids(poll_options) \ Ids(poll_options') \subseteq {r.option}
              /\ r.votes \subseteq VotesOfOptions({r.option})
              /\ polls' = polls]_vars

\* a signed-in user who is not the creator has asked for the deletion of an
\* option that holds a vote, and has been refused
C26_Witness ==
    /\ secureResult.op = "deleteOption"
    /\ secureResult.user = UserU2
    /\ ~secureResult.success
    /\ secureResult.error = "Not your own poll"
    /\ VotesOfOptions({secureResult.option}) # {}

\* ------------------------------------------------------------------------
\* Properties of the edit under concurrent votes
\* ------------------------------------------------------------------------
\* the step is a successful deletePollOptionSecure of the edit handler
DeletesOption(o) ==
    /\ Len(calls') = Len(calls) + 1
    /\ calls'[Len(calls')] = Call("deleteOption", o, TRUE, 0)

\* C27: whatever the interleaving of the delete sequence of an edit with the
\* votes of the users, every vote row references an option row and a poll row
\* of the store, and the step that deletes an option leaves no vote of it,
\* also when the vote check of the run had found none.
C27_NoOrphanedVotes ==
    /\ [](\A v \in votes : OptionRows(v.option_id) # {} /\ PollRows(v.poll_id) # {})
    /\ [][\A o \in Ids(poll_options) :
            DeletesOption(o) => (OptionRows(o)' = {} /\ VotesOfOptions({o})' = {})]_vars

\* a vote cast after the vote check of its option had found none is gone with
\* the option: the run has deleted without a vote delete, the poll is there,
\* and a voter whose page has recorded a vote has none in the store
C27_Witness ==
    /\ PollRows(PollId) # {}
    /\ \A i \in 1..Len(calls) : calls[i].ok /\ calls[i].op # "deleteVotes"
    /\ \E i \in 1..Len(calls) : calls[i].op = "deleteOption"
    /\ \A i \in 1..Len(calls) : calls[i].op = "checkVotes" => calls[i].n = 0
    /\ \E u \in Users : hasVoted[u] /\ ~HasVote(u)

\* ------------------------------------------------------------------------
\* Properties of the poll actions component
\* ------------------------------------------------------------------------
\* C28: at most one delete call of the component is in flight, and a confirm
\* click that arrives while isDeleting is true starts no call and changes
\* neither the store nor the state of the run.
C28_SingleInFlightDelete ==
    /\ [](deleteInFlight \in {0, 1})
    /\ [][(isDeleting /\ confirmClicks' > confirmClicks)
            => (/\ deleteInFlight' = deleteInFlight
                /\ deleteCalls' = deleteCalls
                /\ isDeleting'
                /\ UNCHANGED storeVars)]_vars

\* a second confirm click has arrived before the delete call has returned
C28_Witness ==
    /\ isDeleting
    /\ deleteInFlight = 1
    /\ confirmClicks = 2
    /\ deleteCalls = <<>>

\* C29: isDeleting is true exactly while a delete call is in flight, and
\* whenever it is true it becomes false again: the call returns, with success
\* or with an error, and the handler resets the loading state.
C29_DeletingStateClears ==
    /\ [](isDeleting <=> deleteInFlight > 0)
    /\ (isDeleting ~> ~isDeleting)
    /\ [][(deleteCalls' # deleteCalls /\ deleteCalls' # <<>>) => ~isDeleting']_vars

\* a delete call has returned with an error and the controls are enabled again
C29_Witness ==
    /\ ~isDeleting
    /\ deleteInFlight = 0
    /\ deleteCalls = <<[op |-> "deletePoll", id |-> PollId, ok |-> FALSE]>>
    /\ shown.by = "handleDeleteConfirm"
    /\ shown.title = "Error"
    /\ ~onPollDeleted

\* ------------------------------------------------------------------------
\* Properties of a completed edit
\* ------------------------------------------------------------------------
\* the step ends a run of handleSubmit all of whose store calls went through
CompletesEdit ==
    /\ editPc = "refresh"
    /\ editPc' = "closed"
    /\ \A i \in 1..Len(calls') : calls'[i].ok

\* every option kept by the run is in the store with its id and its text
KeptOptionsInPlace ==
    \A i \in 1..Len(pollOptions) :
        pollOptions[i].id \in toKeep
            => \E j \in 1..Len(poll_options) :
                  /\ poll_options[j].id = pollOptions[i].id
                  /\ poll_options[j].option_text = pollOptions[i].option_text
                  /\ poll_options[j].poll_id = PollId

====
